---- MODULE Spec2Model ----
(***************************************************************************)
(* Model of the NLF harvester: the METS manifest parser                    *)
(* (harvester/mets.py) and the SFTP replication operators                  *)
(* (pipeline/plugins/operators/custom_operators.py).                       *)
(*                                                                         *)
(* Spec      : batch processing by DownloadBindingBatchOperator, one       *)
(*             blocking storage or fetch operation per step, re-run up to  *)
(*             MaxRuns times over the same storage.                        *)
(* SpecMETS  : one METS instance over a bounded manifest, with repeated    *)
(*             files() / files_of_type() calls.                            *)
(* SpecDownload : one METS instance, download_files_of_type() and          *)
(*             download_alto_files() calls.                                *)
(* SpecConc  : two concurrent invocations of the batch operator on the     *)
(*             same batch, over the same storage.                          *)
(* SpecDag   : the batch operator and the task download_binding_batch of   *)
(*             dags/separate_dags.py.                                      *)
(* SpecPeek  : the per-file operators, airflow/plugins included, over      *)
(*             manifests already on storage.                               *)
(* SpecConn  : executions of CreateConnectionOperator over one connection  *)
(*             store.                                                      *)
(* SpecImage : PrepareDownloadLocationOperator, the downloads and          *)
(*             CreateImageOperator over one disk image, with the remote    *)
(*             commands that are started and not waited for.               *)
(***************************************************************************)
EXTENDS Integers, Sequences, FiniteSets, TLC

(* ------------------------------ bounds -------------------------------- *)
\* bindings in the batch
NumBindings == 2
\* chunks of a complete manifest and of a complete content file
NumChunks == 2
\* file elements in the manifest of the first binding of the batch
MaxFiles == 3
\* executions of the batch operator over the same storage
MaxRuns == 2
\* file elements of a manifest handed to a METS instance
MaxElems == 2
\* calls made on one METS instance
MaxCalls == 2
\* executions of CreateConnectionOperator over one connection store
MaxConnExecs == 2

VARIABLES
  fs,           \* storage channel: path -> [present, data]
  dirs,         \* storage channel: directories that exist
  pc,           \* per invocation: position in the code
  err,          \* per invocation: exception that ended the run ("none" if none)
  runs,         \* per invocation context: executions started so far
  bidx,         \* index in self.batch of the binding being processed
  sidx,         \* index of the stage being executed for that binding
  fidx,         \* index in alto_files of the file being processed
  alto_files,   \* the listing SaveAltosSFTPOperator iterates over
  stream,       \* chunks the content-fetch channel has still to deliver
  gh,           \* per invocation: history of the current execution
  metsAborted,  \* per binding: the last manifest download was cut by a transport error
  batch,        \* per invocation: self.batch, the bindings to process
  orch,         \* per invocation: the orchestration that runs the stages
  pos,          \* per invocation: position of the open destination file handle
  mets_doc,     \* METS instance: the file elements of the backing document
  files_cache,  \* METS instance: self._files
  mets_parses,  \* METS instance: times the document was opened and parsed
  mets_out,     \* METS instance: records yielded by the last call
  mets_raised,  \* METS instance: the last call raised
  mets_calls,   \* METS instance: the calls made so far, oldest first
  mets_downloaded, \* METS instance: the files download was invoked on, in order
  conns,        \* the connection store: rows in insertion order
  conn_log,     \* executions of CreateConnectionOperator, with the store before each
  image,        \* the disk image base_path/image_base_name.sqfs on the remote host
  tmp,          \* the temporary image directory tmp_path/image_base_name
  ipc,          \* position of the image pipeline
  pending,      \* remote commands started with exec_command and not waited for
  issued,       \* history: every remote command started so far
  harvested,    \* history: the bindings harvested so far
  mk_status     \* exit status read from mksquashfs: "none", "ok" or "fail"

pipeVars == <<fs, dirs, pc, err, runs, bidx, sidx, fidx, alto_files, stream, gh,
              metsAborted, batch, orch, pos>>
metsVars == <<mets_doc, files_cache, mets_parses, mets_out, mets_raised, mets_calls,
              mets_downloaded>>
connVars == <<conns, conn_log>>
imgVars == <<image, tmp, ipc, pending, issued, harvested, mk_status>>
auxVars == <<connVars, imgVars>>
vars == <<fs, dirs, pc, err, runs, bidx, sidx, fidx, alto_files, stream, gh,
          metsAborted, batch, orch, pos,
          mets_doc, files_cache, mets_parses, mets_out, mets_raised,
          mets_calls, mets_downloaded, conns, conn_log,
          image, tmp, ipc, pending, issued, harvested, mk_status>>

(* ------------------------- harvester/mets.py -------------------------- *)

FileTypes == {"ALTOFile", "UnknownTypeFile"}

\* the use a file group declares for its files; only the ALTO group is in
\* the lookup table
Uses == {"alto", "image"}

\* the checksum declarations an element may carry: the algorithm name of each
ChecksumDecls == {<<>>, <<"md5">>, <<"MD5">>, <<"md5", "sha1">>}

\* a <file> element: its position in the document, its declared use, the
\* number of locations and the checksums it declares
ElementKinds == [use : Uses, nloc : 0..2, cks : ChecksumDecls]

\* the manifests of at most n elements; an element's name is its position
DocsUpTo(n) ==
  UNION {{[i \in 1..m |-> [name |-> i, use |-> k[i].use, nloc |-> k[i].nloc,
                           cks |-> k[i].cks]] : k \in [1..m -> ElementKinds]} :
         m \in 0..n}

\* str.upper on the algorithm names of the manifests
Upper(a) == IF a \in {"md5", "MD5"} THEN "MD5" ELSE "SHA1"

\* the lookup from declared use to file type; a use that is not in the table
\* gives the unknown type
classify_strict(use) == IF use = "alto" THEN "ALTOFile" ELSE "KeyError"
classify(use) == IF use = "alto" THEN "ALTOFile" ELSE "UnknownTypeFile"

\* File.file_from_element: the record of one element, or METSLocationParseError
\* when the element does not declare exactly one location; checksum and
\* algorithm are set when exactly one checksum is declared
file_from_element_first_checksum(e) ==
  [ok   |-> e.nloc = 1 /\ classify(e.use) \in FileTypes,
   file |-> [name |-> e.name, type |-> classify(e.use),
             has_checksum |-> Len(e.cks) >= 1,
             algorithm |-> IF Len(e.cks) >= 1 THEN Upper(e.cks[1]) ELSE "unset"]]
file_from_element(e) ==
  [ok   |-> e.nloc = 1 /\ classify(e.use) \in FileTypes,
   file |-> [name |-> e.name, type |-> classify(e.use),
             has_checksum |-> Len(e.cks) = 1,
             algorithm |-> IF Len(e.cks) = 1 THEN Upper(e.cks[1]) ELSE "unset"]]

\* the loop of _ensure_files: append records until an element raises
RECURSIVE parse_elements_prepend(_, _)
parse_elements_prepend(elems, acc) ==
  IF elems = <<>> THEN [files |-> acc, raised |-> FALSE]
  ELSE LET r == file_from_element(Head(elems)) IN
       IF r.ok THEN parse_elements_prepend(Tail(elems), <<r.file>> \o acc)
       ELSE [files |-> acc, raised |-> TRUE]
RECURSIVE parse_elements(_, _)
parse_elements(elems, acc) ==
  IF elems = <<>> THEN [files |-> acc, raised |-> FALSE]
  ELSE LET r == file_from_element(Head(elems)) IN
       IF r.ok THEN parse_elements(Tail(elems), Append(acc, r.file))
       ELSE [files |-> acc, raised |-> TRUE]

\* self._files = None
NoFiles == [set |-> FALSE, files |-> <<>>]

\* truth value of self._files: None and the empty list are both false
Truthy(cache) == cache.set /\ Len(cache.files) > 0

\* METS._ensure_files
ensure_files(cache, doc) ==
  IF Truthy(cache)
  THEN [cache |-> cache, raised |-> FALSE, parsed |-> FALSE]
  ELSE LET r == parse_elements(doc, <<>>) IN
       [cache |-> [set |-> TRUE, files |-> r.files], raised |-> r.raised,
        parsed |-> TRUE]

RECURSIVE SelectType(_, _)
SelectType(s, t) ==
  IF s = <<>> THEN <<>>
  ELSE IF Head(s).type = t THEN <<Head(s)>> \o SelectType(Tail(s), t)
  ELSE SelectType(Tail(s), t)

\* METS.files, consumed to the end by the caller
files(cache, doc) ==
  LET r == ensure_files(cache, doc) IN
  [cache |-> r.cache, raised |-> r.raised, parsed |-> r.parsed,
   out |-> IF r.raised THEN <<>> ELSE r.cache.files]

\* METS.files_of_type, consumed to the end by the caller
files_of_type(cache, doc, filetype) ==
  LET r == files(cache, doc) IN
  [cache |-> r.cache, raised |-> r.raised, parsed |-> r.parsed,
   out |-> SelectType(r.out, filetype)]

\* METS.download_files_of_type: file.download for each file of the listing;
\* downloads is the sequence of files download is invoked on
download_files_of_type_all(cache, doc, filetype) ==
  LET r == files(cache, doc) IN
  [cache |-> r.cache, raised |-> r.raised, parsed |-> r.parsed, downloads |-> r.out]
download_files_of_type(cache, doc, filetype) ==
  LET r == files_of_type(cache, doc, filetype) IN
  [cache |-> r.cache, raised |-> r.raised, parsed |-> r.parsed, downloads |-> r.out]

\* METS.download_alto_files
download_alto_files(cache, doc) == download_files_of_type(cache, doc, "ALTOFile")

(* ------------------------ the batch and its data ----------------------- *)

Workers == {1, 2}
\* invocations that run in Spec
ActiveWorkers == {1}

\* self.batch
Batch == [i \in 1..NumBindings |-> i]

\* the manifest of binding b as the source repository publishes it: MaxFiles
\* file elements for the first binding, one for the others
MetsDoc(b) ==
  LET n == IF b = 1 THEN MaxFiles ELSE 1 IN
  [i \in 1..n |-> [name |-> i,
                   use |-> IF i % 2 = 1 THEN "alto" ELSE "image",
                   nloc |-> 1, cks |-> <<"md5">>]]

\* a manifest that lists no file of the target type
NoAltoDoc(b) == <<[name |-> 1, use |-> "image", nloc |-> 1, cks |-> <<"md5">>]>>

\* the bytes of a complete manifest and of a complete content file
MetsSrc(b) == [i \in 1..NumChunks |-> i]
NoAltoSrc(b) == [i \in 1..NumChunks |-> NumChunks + i]
AltoSrc(p) == [i \in 1..NumChunks |-> i]

Paths == [root : 1..NumBindings, dir : {"mets", "alto"}, name : 0..MaxFiles]

Absent == [present |-> FALSE, data |-> <<>>]
Truncated == [present |-> TRUE, data |-> <<>>]

\* tmp_binding_path / file_dir
tmp_output_location_tmpdir(tmpdir, file_dir) == [root |-> tmpdir, dir |-> "."]
tmp_output_location(tmpdir, file_dir) == [root |-> tmpdir, dir |-> file_dir]

\* utils.mets_download_location with filename "<binding id>_METS.xml"
mets_download_location(base_path, file_dir) ==
  [root |-> base_path, dir |-> file_dir, name |-> 0]

\* utils.file_download_location
file_download_location(file, base_path, file_dir) ==
  [root |-> base_path, dir |-> file_dir, name |-> file.name]

\* os.path.join(self.mets_path, "<binding id>_METS.xml"), mets_path being
\* tmp_binding_path / "mets"
mets_read_path(tmpdir) == [root |-> tmpdir, dir |-> "mets", name |-> 0]

DirOf(p) == [root |-> p.root, dir |-> p.dir]

\* a write through an SFTP file handle opened with "w" puts the chunk at the
\* handle's own position; positions past the end of a file that was
\* truncated meanwhile read back as a hole (0)
WriteAt(data, off, chunk) ==
  LET n == IF Len(data) > off THEN Len(data) ELSE off + 1
  IN [i \in 1..n |-> IF i = off + 1 THEN chunk
                     ELSE IF i <= Len(data) THEN data[i] ELSE 0]

(* ----------------------------- operators ------------------------------ *)

\* the stages DownloadBindingBatchOperator.execute runs for each binding
Stages_altos_first == <<"SaveAltos", "SaveMets">>
Stages == <<"SaveMets", "SaveAltos">>

StageEntry(s) == IF s = "SaveMets" THEN "mets_ensure" ELSE "altos_open_mets"

\* SaveFilesSFTPOperator.file_exists
file_exists_any_size(path) == fs[path].present
file_exists_never(path) == FALSE
file_exists(path) ==
  IF ~fs[path].present THEN FALSE       \* stat raises OSError
  ELSE Len(fs[path].data) > 0

\* the except clauses of SaveMetsSFTPOperator.execute: TRUE when the exception
\* is raised to the caller
mets_except_swallow(e) == FALSE
mets_except(e) == e \in {"RequestException", "OSError"}

\* the final size check of SaveMetsSFTPOperator.execute
mets_is_empty_never(size) == size < 0
mets_is_empty(size) == size = 0

\* the except clause of the with block of SaveAltosSFTPOperator.execute: TRUE
\* when the exception is caught (logged, continue)
alto_except_none(e) == FALSE
alto_except(e) == e = "RequestException"

\* the directory trees the orchestrations name, one per binding b:
\* self.tmpdir / self.image_base_name / binding_download_location(binding_id)
tmp_binding_path(b) == b
\* TMPDIR/<set id>/<binding id>, from tmpdir=TMPDIR and file_dir of the task
dag_tmpdir_set_binding(b) == NumBindings + b
\* base_path/<set id>/<binding id>, from mets_path of the task
dag_base_path_set_binding(b) == 2 * NumBindings + b
\* TMPDIR/<binding id>, the operand of rm -r of the task
dag_tmpdir_binding(b) == 3 * NumBindings + b

\* tmpdir joined with the part of file_dir above "mets": where orchestration
\* o has SaveMetsSFTPOperator write the manifest of b
SaveMetsRoot(o, b) ==
  IF o = "batch" THEN tmp_binding_path(b) ELSE dag_tmpdir_set_binding(b)

\* mets_path without its last segment "mets": where orchestration o has
\* SaveAltosSFTPOperator read the manifest of b
SaveAltosMetsRoot(o, b) ==
  IF o = "batch" THEN tmp_binding_path(b) ELSE dag_base_path_set_binding(b)

\* tmpdir joined with the part of file_dir above "alto": where orchestration
\* o has SaveAltosSFTPOperator write the content files of b
SaveAltosRoot(o, b) ==
  IF o = "batch" THEN tmp_binding_path(b) ELSE dag_tmpdir_set_binding(b)

\* the tree removed for binding b: by rm -r of the task, and for the batch
\* operator by rm -r tmp_image_path of CreateImageOperator, which holds
\* tmp_binding_path(b)
CleanupRoot(o, b) ==
  IF o = "batch" THEN tmp_binding_path(b) ELSE dag_tmpdir_binding(b)

\* self.tmpdir / self.file_dir is defined for the path object
\* DownloadBindingBatchOperator passes, and a TypeError for the str TMPDIR
TmpdirIsPath(o) == o = "batch"

\* access to the state of invocation w
Binding(w) == batch[w][bidx[w]]
MetsPath(w) == mets_download_location(SaveMetsRoot(orch[w], Binding(w)), "mets")
MetsReadPath(w) == mets_read_path(SaveAltosMetsRoot(orch[w], Binding(w)))
AltoPath(w) ==
  file_download_location(alto_files[w][fidx[w]], SaveAltosRoot(orch[w], Binding(w)),
                         "alto")

NewHistory ==
  [seen |-> {}, openTried |-> {}, fetched |-> {}, fetchOK |-> {}, reqFailed |-> {},
   osFailed |-> {}, faulted |-> FALSE, metsDone |-> {}, metsFailed |-> {},
   altosDone |-> {}, zero |-> {}, ensured |-> {}]

\* a stage returns normally: the next stage, the next binding or the end
StageReturn(w) ==
  IF sidx[w] < Len(Stages)
  THEN /\ pc' = [pc EXCEPT ![w] = StageEntry(Stages[sidx[w] + 1])]
       /\ sidx' = [sidx EXCEPT ![w] = @ + 1]
       /\ bidx' = bidx
  ELSE IF bidx[w] < Len(batch[w])
  THEN /\ pc' = [pc EXCEPT ![w] = StageEntry(Stages[1])]
       /\ sidx' = [sidx EXCEPT ![w] = 1]
       /\ bidx' = [bidx EXCEPT ![w] = @ + 1]
  ELSE /\ pc' = [pc EXCEPT ![w] = "done"]
       /\ sidx' = sidx
       /\ bidx' = bidx

\* an exception leaves execute
Raise_next_binding(w, e) ==
  /\ err' = [err EXCEPT ![w] = e]
  /\ IF bidx[w] < Len(batch[w])
     THEN /\ pc' = [pc EXCEPT ![w] = StageEntry(Stages[1])]
          /\ sidx' = [sidx EXCEPT ![w] = 1]
          /\ bidx' = [bidx EXCEPT ![w] = @ + 1]
     ELSE /\ pc' = [pc EXCEPT ![w] = "done"]
          /\ UNCHANGED <<sidx, bidx>>
Raise(w, e) ==
  /\ pc' = [pc EXCEPT ![w] = "raised"]
  /\ err' = [err EXCEPT ![w] = e]
  /\ UNCHANGED <<sidx, bidx>>

\* an orchestration o starts processing the bindings bs
Start(w, o, bs) ==
  /\ runs' = [runs EXCEPT ![w] = @ + 1]
  /\ pc' = [pc EXCEPT ![w] = StageEntry(Stages[1])]
  /\ err' = [err EXCEPT ![w] = "none"]
  /\ bidx' = [bidx EXCEPT ![w] = 1]
  /\ sidx' = [sidx EXCEPT ![w] = 1]
  /\ fidx' = [fidx EXCEPT ![w] = 1]
  /\ alto_files' = [alto_files EXCEPT ![w] = <<>>]
  /\ stream' = [stream EXCEPT ![w] = <<>>]
  /\ gh' = [gh EXCEPT ![w] = NewHistory]
  /\ batch' = [batch EXCEPT ![w] = bs]
  /\ orch' = [orch EXCEPT ![w] = o]
  /\ UNCHANGED <<fs, dirs, metsAborted, pos>>
  /\ UNCHANGED metsVars
  /\ UNCHANGED auxVars

\* DownloadBindingBatchOperator.execute is entered
BatchStart(w) ==
  /\ pc[w] \in {"idle", "done", "raised"}
  /\ runs[w] < MaxRuns
  /\ Start(w, "batch", Batch)

\* the task download_binding_batch of the DAG is started on a batch
DagStart(w) ==
  /\ pc[w] \in {"idle", "done", "raised"}
  /\ runs[w] < MaxRuns
  /\ Start(w, "dag", Batch)

(* SaveMetsSFTPOperator.execute *)

\* in the task of the DAG the first stage of the first binding raises before
\* any storage or fetch operation: BaseOperator rejects the base_path keyword,
\* and ensure_tmp_output_location divides the str TMPDIR by a str
MetsEnsureDirFails(w) ==
  /\ pc[w] = "mets_ensure"
  /\ ~TmpdirIsPath(orch[w])
  /\ \E e \in {"AirflowException", "TypeError"} : Raise(w, e)
  /\ gh' = [gh EXCEPT ![w].faulted = TRUE,
                      ![w].metsFailed = @ \cup {Binding(w)}]
  /\ UNCHANGED <<fs, dirs, runs, fidx, alto_files, stream, metsAborted>>
  /\ UNCHANGED <<batch, orch, pos>>
  /\ UNCHANGED metsVars
  /\ UNCHANGED auxVars

MetsEnsureDir(w) ==
  /\ pc[w] = "mets_ensure"
  /\ TmpdirIsPath(orch[w])
  /\ LET d == tmp_output_location(SaveMetsRoot(orch[w], Binding(w)), "mets") IN
     /\ dirs' = dirs \cup {d}
     /\ gh' = [gh EXCEPT ![w].ensured = @ \cup {d}]
  /\ pc' = [pc EXCEPT ![w] = "mets_check"]
  /\ UNCHANGED <<fs, err, runs, bidx, sidx, fidx, alto_files, stream, metsAborted>>
  /\ UNCHANGED <<batch, orch, pos>>
  /\ UNCHANGED metsVars
  /\ UNCHANGED auxVars

MetsCheck(w) ==
  /\ pc[w] = "mets_check"
  /\ LET p == MetsPath(w) IN
     /\ IF file_exists(p)
        THEN /\ StageReturn(w)
             /\ gh' = [gh EXCEPT ![w].seen = @ \cup {[path |-> p, at |-> fs[p]]},
                                 ![w].metsDone = @ \cup {Binding(w)}]
        ELSE /\ pc' = [pc EXCEPT ![w] = "mets_open"]
             /\ gh' = [gh EXCEPT ![w].seen = @ \cup {[path |-> p, at |-> fs[p]]}]
             /\ UNCHANGED <<sidx, bidx>>
  /\ UNCHANGED <<fs, dirs, err, runs, fidx, alto_files, stream, metsAborted>>
  /\ UNCHANGED <<batch, orch, pos>>
  /\ UNCHANGED metsVars
  /\ UNCHANGED auxVars

\* sftp_client.file(path, "w") succeeds and api.download_mets is called; the
\* channel will deliver the manifest, or no byte at all
MetsOpen(w) ==
  /\ pc[w] = "mets_open"
  /\ LET p == MetsPath(w) IN
     /\ DirOf(p) \in dirs
     /\ fs' = [fs EXCEPT ![p] = Truncated]
     /\ \E s \in {MetsSrc(Binding(w)), <<>>} :
          /\ stream' = [stream EXCEPT ![w] = s]
          /\ gh' = [gh EXCEPT ![w].openTried = @ \cup {p},
                              ![w].fetched = @ \cup {p},
                              ![w].zero = IF s = <<>> THEN @ \cup {p} ELSE @]
  /\ pc' = [pc EXCEPT ![w] = "mets_stream"]
  /\ UNCHANGED <<dirs, err, runs, bidx, sidx, fidx, alto_files, metsAborted>>
  /\ pos' = [pos EXCEPT ![w] = 0]
  /\ UNCHANGED <<batch, orch>>
  /\ UNCHANGED metsVars
  /\ UNCHANGED auxVars

\* sftp_client.file(path, "w") raises OSError: outside the try, it propagates
MetsOpenFails(w) ==
  /\ pc[w] = "mets_open"
  /\ Raise(w, "OSError")
  /\ gh' = [gh EXCEPT ![w].openTried = @ \cup {MetsPath(w)},
                      ![w].faulted = TRUE,
                      ![w].metsFailed = @ \cup {Binding(w)}]
  /\ UNCHANGED <<fs, dirs, runs, fidx, alto_files, stream, metsAborted>>
  /\ UNCHANGED <<batch, orch, pos>>
  /\ UNCHANGED metsVars
  /\ UNCHANGED auxVars

\* download_mets writes the next chunk to the destination
MetsWriteChunk(w) ==
  /\ pc[w] = "mets_stream"
  /\ stream[w] # <<>>
  /\ fs' = [fs EXCEPT ![MetsPath(w)].data = WriteAt(@, pos[w], Head(stream[w]))]
  /\ stream' = [stream EXCEPT ![w] = Tail(@)]
  /\ UNCHANGED <<dirs, pc, err, runs, bidx, sidx, fidx, alto_files, gh, metsAborted>>
  /\ pos' = [pos EXCEPT ![w] = @ + 1]
  /\ UNCHANGED <<batch, orch>>
  /\ UNCHANGED metsVars
  /\ UNCHANGED auxVars

\* download_mets raises e (RequestException from the content channel, OSError
\* from the write) before the next chunk; the with block closes the file
MetsTransportFails(w) ==
  /\ pc[w] = "mets_stream"
  /\ stream[w] # <<>>
  /\ \E e \in {"RequestException", "OSError"} :
       IF mets_except(e)
       THEN Raise(w, e)
       ELSE StageReturn(w) /\ err' = err
  /\ gh' = [gh EXCEPT ![w].faulted = TRUE,
                      ![w].metsFailed = @ \cup {Binding(w)}]
  /\ metsAborted' = [metsAborted EXCEPT ![Binding(w)] = TRUE]
  /\ stream' = [stream EXCEPT ![w] = <<>>]
  /\ UNCHANGED <<fs, dirs, runs, fidx, alto_files>>
  /\ UNCHANGED <<batch, orch, pos>>
  /\ UNCHANGED metsVars
  /\ UNCHANGED auxVars

\* download_mets returns; the with block closes the file
MetsClose(w) ==
  /\ pc[w] = "mets_stream"
  /\ stream[w] = <<>>
  /\ pc' = [pc EXCEPT ![w] = "mets_stat"]
  /\ metsAborted' = [metsAborted EXCEPT ![Binding(w)] = FALSE]
  /\ UNCHANGED <<fs, dirs, err, runs, bidx, sidx, fidx, alto_files, stream, gh>>
  /\ UNCHANGED <<batch, orch, pos>>
  /\ UNCHANGED metsVars
  /\ UNCHANGED auxVars

\* the size check after the write
MetsStat(w) ==
  /\ pc[w] = "mets_stat"
  /\ IF mets_is_empty(Len(fs[MetsPath(w)].data))
     THEN /\ Raise(w, "METSFileEmptyError")
          /\ gh' = gh
     ELSE /\ StageReturn(w)
          /\ err' = err
          /\ gh' = [gh EXCEPT ![w].metsDone = @ \cup {Binding(w)}]
  /\ UNCHANGED <<fs, dirs, runs, fidx, alto_files, stream, metsAborted>>
  /\ UNCHANGED <<batch, orch, pos>>
  /\ UNCHANGED metsVars
  /\ UNCHANGED auxVars

(* SaveAltosSFTPOperator.execute *)

\* etree.parse of the bytes read from storage: a document only when the
\* manifest is complete, XMLSyntaxError on an empty or truncated one
DecodeManifest(b, data) ==
  [ok |-> data \in {MetsSrc(b), NoAltoSrc(b)},
   doc |-> IF data = MetsSrc(b) THEN MetsDoc(b)
           ELSE IF data = NoAltoSrc(b) THEN NoAltoDoc(b) ELSE <<>>]

\* sftp_client.file(path, "r"): IOError when the manifest is not there
AltosOpenMets(w) ==
  /\ pc[w] = "altos_open_mets"
  /\ IF fs[MetsReadPath(w)].present
     THEN /\ pc' = [pc EXCEPT ![w] = "altos_ensure"]
          /\ UNCHANGED <<err, sidx, bidx>>
     ELSE Raise(w, "OSError")
  /\ UNCHANGED <<fs, dirs, runs, fidx, alto_files, stream, gh, metsAborted>>
  /\ UNCHANGED <<batch, orch, pos>>
  /\ UNCHANGED metsVars
  /\ UNCHANGED auxVars

AltosEnsureDir(w) ==
  /\ pc[w] = "altos_ensure"
  /\ LET d == tmp_output_location(SaveAltosRoot(orch[w], Binding(w)), "alto") IN
     /\ dirs' = dirs \cup {d}
     /\ gh' = [gh EXCEPT ![w].ensured = @ \cup {d}]
  /\ pc' = [pc EXCEPT ![w] = "altos_parse"]
  /\ UNCHANGED <<fs, err, runs, bidx, sidx, fidx, alto_files, stream, metsAborted>>
  /\ UNCHANGED <<batch, orch, pos>>
  /\ UNCHANGED metsVars
  /\ UNCHANGED auxVars

\* the first step of the for loop runs the generator: a fresh METS instance
\* reads the manifest through the stream opened at line 165 and parses it
AltosParse(w) ==
  /\ pc[w] = "altos_parse"
  /\ LET d == DecodeManifest(Binding(w), fs[MetsReadPath(w)].data)
         r == files_of_type(NoFiles, d.doc, "ALTOFile")
     IN IF ~d.ok THEN Raise(w, "XMLSyntaxError") /\ UNCHANGED <<alto_files, fidx>>
        ELSE IF r.raised
        THEN Raise(w, "METSLocationParseError") /\ UNCHANGED <<alto_files, fidx>>
        ELSE /\ alto_files' = [alto_files EXCEPT ![w] = r.out]
             /\ fidx' = [fidx EXCEPT ![w] = 1]
             /\ pc' = [pc EXCEPT ![w] = "altos_check"]
             /\ UNCHANGED <<err, sidx, bidx>>
  /\ UNCHANGED <<fs, dirs, runs, stream, gh, metsAborted>>
  /\ UNCHANGED <<batch, orch, pos>>
  /\ UNCHANGED metsVars
  /\ UNCHANGED auxVars

\* the listing is exhausted: execute returns
AltosLoopEnd(w) ==
  /\ pc[w] = "altos_check"
  /\ fidx[w] > Len(alto_files[w])
  /\ StageReturn(w)
  /\ gh' = [gh EXCEPT ![w].altosDone = @ \cup {Binding(w)}]
  /\ UNCHANGED <<fs, dirs, err, runs, fidx, alto_files, stream, metsAborted>>
  /\ UNCHANGED <<batch, orch, pos>>
  /\ UNCHANGED metsVars
  /\ UNCHANGED auxVars

\* the existence check of one file: continue, or go on to open it
AltosCheck(w) ==
  /\ pc[w] = "altos_check"
  /\ fidx[w] <= Len(alto_files[w])
  /\ LET p == AltoPath(w) IN
     /\ gh' = [gh EXCEPT ![w].seen = @ \cup {[path |-> p, at |-> fs[p]]}]
     /\ IF file_exists(p)
        THEN /\ fidx' = [fidx EXCEPT ![w] = @ + 1]
             /\ pc' = pc
        ELSE /\ pc' = [pc EXCEPT ![w] = "altos_open"]
             /\ fidx' = fidx
  /\ UNCHANGED <<fs, dirs, err, runs, bidx, sidx, alto_files, stream, metsAborted>>
  /\ UNCHANGED <<batch, orch, pos>>
  /\ UNCHANGED metsVars
  /\ UNCHANGED auxVars

\* sftp_client.file(path, "wb") succeeds and alto_file.download is called
AltosOpen(w) ==
  /\ pc[w] = "altos_open"
  /\ LET p == AltoPath(w) IN
     /\ DirOf(p) \in dirs
     /\ fs' = [fs EXCEPT ![p] = Truncated]
     /\ stream' = [stream EXCEPT ![w] = AltoSrc(p)]
     /\ gh' = [gh EXCEPT ![w].openTried = @ \cup {p}, ![w].fetched = @ \cup {p}]
  /\ pc' = [pc EXCEPT ![w] = "altos_stream"]
  /\ UNCHANGED <<dirs, err, runs, bidx, sidx, fidx, alto_files, metsAborted>>
  /\ pos' = [pos EXCEPT ![w] = 0]
  /\ UNCHANGED <<batch, orch>>
  /\ UNCHANGED metsVars
  /\ UNCHANGED auxVars

\* sftp_client.file(path, "wb") raises OSError: outside the try, it propagates
AltosOpenFails(w) ==
  /\ pc[w] = "altos_open"
  /\ Raise(w, "OSError")
  /\ gh' = [gh EXCEPT ![w].openTried = @ \cup {AltoPath(w)}, ![w].faulted = TRUE,
                      ![w].osFailed = @ \cup {AltoPath(w)}]
  /\ UNCHANGED <<fs, dirs, runs, fidx, alto_files, stream, metsAborted>>
  /\ UNCHANGED <<batch, orch, pos>>
  /\ UNCHANGED metsVars
  /\ UNCHANGED auxVars

\* download writes the next chunk to the destination
AltosWriteChunk(w) ==
  /\ pc[w] = "altos_stream"
  /\ stream[w] # <<>>
  /\ fs' = [fs EXCEPT ![AltoPath(w)].data = WriteAt(@, pos[w], Head(stream[w]))]
  /\ stream' = [stream EXCEPT ![w] = Tail(@)]
  /\ UNCHANGED <<dirs, pc, err, runs, bidx, sidx, fidx, alto_files, gh, metsAborted>>
  /\ pos' = [pos EXCEPT ![w] = @ + 1]
  /\ UNCHANGED <<batch, orch>>
  /\ UNCHANGED metsVars
  /\ UNCHANGED auxVars

\* download raises e (RequestException from the content channel, OSError from
\* the write) before the next chunk; the with block closes the file
AltosTransportFails(w) ==
  /\ pc[w] = "altos_stream"
  /\ stream[w] # <<>>
  /\ \E e \in {"RequestException", "OSError"} :
       /\ IF alto_except(e)
          THEN /\ fidx' = [fidx EXCEPT ![w] = @ + 1]
               /\ pc' = [pc EXCEPT ![w] = "altos_check"]
               /\ UNCHANGED <<err, sidx, bidx>>
          ELSE /\ Raise(w, e)
               /\ fidx' = fidx
       /\ gh' = [gh EXCEPT ![w].faulted = TRUE,
                           ![w].reqFailed = IF e = "RequestException"
                                            THEN @ \cup {AltoPath(w)} ELSE @,
                           ![w].osFailed = IF e = "OSError"
                                           THEN @ \cup {AltoPath(w)} ELSE @]
  /\ stream' = [stream EXCEPT ![w] = <<>>]
  /\ UNCHANGED <<fs, dirs, runs, alto_files, metsAborted>>
  /\ UNCHANGED <<batch, orch, pos>>
  /\ UNCHANGED metsVars
  /\ UNCHANGED auxVars

\* download returns; the with block closes the file; next file
AltosClose(w) ==
  /\ pc[w] = "altos_stream"
  /\ stream[w] = <<>>
  /\ fidx' = [fidx EXCEPT ![w] = @ + 1]
  /\ pc' = [pc EXCEPT ![w] = "altos_check"]
  /\ gh' = [gh EXCEPT ![w].fetchOK = @ \cup {AltoPath(w)}]
  /\ UNCHANGED <<fs, dirs, err, runs, bidx, sidx, alto_files, stream, metsAborted>>
  /\ UNCHANGED <<batch, orch, pos>>
  /\ UNCHANGED metsVars
  /\ UNCHANGED auxVars

(* SaveAltosForMetsSFTPOperator.execute and SaveAltosForSetSFTPOperator.execute
   (airflow/plugins/operators/custom_operators.py) *)

\* the manifests the loop of the operator goes through: the files listed in
\* base_path/mets, or the identifiers of the set
PeekBatch(o) ==
  IF o = "for_mets"
  THEN SelectSeq(Batch, LAMBDA b : fs[mets_download_location(b, "mets")].present)
  ELSE Batch

\* where construct_file_download_location puts the file being processed
PeekAltoPath(w) == file_download_location(alto_files[w][fidx[w]], Binding(w), "alto")

\* execute is entered
PeekStart(w, o) ==
  /\ pc[w] \in {"idle", "done", "raised"}
  /\ runs[w] < MaxRuns
  /\ runs' = [runs EXCEPT ![w] = @ + 1]
  /\ pc' = [pc EXCEPT ![w] = "peek_open_mets"]
  /\ err' = [err EXCEPT ![w] = "none"]
  /\ bidx' = [bidx EXCEPT ![w] = 1]
  /\ sidx' = [sidx EXCEPT ![w] = 1]
  /\ fidx' = [fidx EXCEPT ![w] = 1]
  /\ alto_files' = [alto_files EXCEPT ![w] = <<>>]
  /\ stream' = [stream EXCEPT ![w] = <<>>]
  /\ gh' = [gh EXCEPT ![w] = NewHistory]
  /\ batch' = [batch EXCEPT ![w] = PeekBatch(o)]
  /\ orch' = [orch EXCEPT ![w] = o]
  /\ UNCHANGED <<fs, dirs, metsAborted, pos>>
  /\ UNCHANGED metsVars
  /\ UNCHANGED auxVars

\* the next manifest of the loop, or the end of execute;
\* sftp_client.file(path, "r") raises IOError when the manifest is not there
PeekOpenMets(w) ==
  /\ pc[w] = "peek_open_mets"
  /\ IF bidx[w] > Len(batch[w])
     THEN /\ pc' = [pc EXCEPT ![w] = "done"]
          /\ UNCHANGED err
     ELSE IF fs[mets_download_location(Binding(w), "mets")].present
     THEN /\ pc' = [pc EXCEPT ![w] = "peek_peek"]
          /\ UNCHANGED err
     ELSE /\ pc' = [pc EXCEPT ![w] = "raised"]
          /\ err' = [err EXCEPT ![w] = "OSError"]
  /\ UNCHANGED <<fs, dirs, runs, bidx, sidx, fidx, alto_files, stream, gh, metsAborted>>
  /\ UNCHANGED <<batch, orch, pos>>
  /\ UNCHANGED metsVars
  /\ UNCHANGED auxVars

\* alto_files.peek(): the generator runs, the manifest is parsed, and peek
\* raises StopIteration when the generator yields nothing
PeekFirst(w) ==
  /\ pc[w] = "peek_peek"
  /\ LET d == DecodeManifest(Binding(w),
                             fs[mets_download_location(Binding(w), "mets")].data)
         r == files_of_type(NoFiles, d.doc, "ALTOFile")
         e == IF ~d.ok THEN "XMLSyntaxError"
              ELSE IF r.raised THEN "METSLocationParseError"
              ELSE IF r.out = <<>> THEN "StopIteration"
              ELSE "none"
     IN IF e # "none"
        THEN /\ pc' = [pc EXCEPT ![w] = "raised"]
             /\ err' = [err EXCEPT ![w] = e]
             /\ UNCHANGED <<alto_files, fidx>>
        ELSE /\ alto_files' = [alto_files EXCEPT ![w] = r.out]
             /\ fidx' = [fidx EXCEPT ![w] = 1]
             /\ pc' = [pc EXCEPT ![w] = "peek_mkdirs"]
             /\ UNCHANGED err
  /\ UNCHANGED <<fs, dirs, runs, bidx, sidx, stream, gh, metsAborted>>
  /\ UNCHANGED <<batch, orch, pos>>
  /\ UNCHANGED metsVars
  /\ UNCHANGED auxVars

\* utils.make_intermediate_dirs on the directory of the first file
PeekMakeDirs(w) ==
  /\ pc[w] = "peek_mkdirs"
  /\ dirs' = dirs \cup {DirOf(PeekAltoPath(w))}
  /\ pc' = [pc EXCEPT ![w] = "peek_open"]
  /\ UNCHANGED <<fs, err, runs, bidx, sidx, fidx, alto_files, stream, gh, metsAborted>>
  /\ UNCHANGED <<batch, orch, pos>>
  /\ UNCHANGED metsVars
  /\ UNCHANGED auxVars

\* the loop over the peekable: open the next file with "wb", or go to the
\* next manifest
PeekOpen(w) ==
  /\ pc[w] = "peek_open"
  /\ IF fidx[w] > Len(alto_files[w])
     THEN /\ pc' = [pc EXCEPT ![w] = "peek_open_mets"]
          /\ bidx' = [bidx EXCEPT ![w] = @ + 1]
          /\ UNCHANGED <<fs, stream, pos, gh>>
     ELSE /\ DirOf(PeekAltoPath(w)) \in dirs
          /\ fs' = [fs EXCEPT ![PeekAltoPath(w)] = Truncated]
          /\ stream' = [stream EXCEPT ![w] = AltoSrc(PeekAltoPath(w))]
          /\ pos' = [pos EXCEPT ![w] = 0]
          /\ gh' = [gh EXCEPT ![w].openTried = @ \cup {PeekAltoPath(w)},
                              ![w].fetched = @ \cup {PeekAltoPath(w)}]
          /\ pc' = [pc EXCEPT ![w] = "peek_stream"]
          /\ UNCHANGED bidx
  /\ UNCHANGED <<dirs, err, runs, sidx, fidx, alto_files, metsAborted>>
  /\ UNCHANGED <<batch, orch>>
  /\ UNCHANGED metsVars
  /\ UNCHANGED auxVars

\* alto_file.download writes the next chunk
PeekWriteChunk(w) ==
  /\ pc[w] = "peek_stream"
  /\ stream[w] # <<>>
  /\ fs' = [fs EXCEPT ![PeekAltoPath(w)].data = WriteAt(@, pos[w], Head(stream[w]))]
  /\ stream' = [stream EXCEPT ![w] = Tail(@)]
  /\ pos' = [pos EXCEPT ![w] = @ + 1]
  /\ UNCHANGED <<dirs, pc, err, runs, bidx, sidx, fidx, alto_files, gh, metsAborted>>
  /\ UNCHANGED <<batch, orch>>
  /\ UNCHANGED metsVars
  /\ UNCHANGED auxVars

\* download returns; the with block closes the file; next file
PeekClose(w) ==
  /\ pc[w] = "peek_stream"
  /\ stream[w] = <<>>
  /\ fidx' = [fidx EXCEPT ![w] = @ + 1]
  /\ pc' = [pc EXCEPT ![w] = "peek_open"]
  /\ gh' = [gh EXCEPT ![w].fetchOK = @ \cup {PeekAltoPath(w)}]
  /\ UNCHANGED <<fs, dirs, err, runs, bidx, sidx, alto_files, stream, metsAborted>>
  /\ UNCHANGED <<batch, orch, pos>>
  /\ UNCHANGED metsVars
  /\ UNCHANGED auxVars

(* --------------------------- specifications --------------------------- *)

MetsIdle ==
  /\ mets_doc = <<>>
  /\ files_cache = NoFiles
  /\ mets_parses = 0
  /\ mets_out = <<>>
  /\ mets_raised = FALSE
  /\ mets_calls = <<>>
  /\ mets_downloaded = <<>>

PipeIdle ==
  /\ fs = [p \in Paths |-> Absent]
  /\ dirs = {}
  /\ pc = [w \in Workers |-> "idle"]
  /\ err = [w \in Workers |-> "none"]
  /\ runs = [w \in Workers |-> 0]
  /\ bidx = [w \in Workers |-> 1]
  /\ sidx = [w \in Workers |-> 1]
  /\ fidx = [w \in Workers |-> 1]
  /\ alto_files = [w \in Workers |-> <<>>]
  /\ stream = [w \in Workers |-> <<>>]
  /\ gh = [w \in Workers |-> NewHistory]
  /\ metsAborted = [b \in 1..NumBindings |-> FALSE]
  /\ batch = [w \in Workers |-> Batch]
  /\ orch = [w \in Workers |-> "batch"]
  /\ pos = [w \in Workers |-> 0]

ConnIdle ==
  /\ conns = <<>>
  /\ conn_log = <<>>

NoDir == [present |-> FALSE, data |-> {}]

ImgIdle ==
  /\ image = NoDir
  /\ tmp = NoDir
  /\ ipc = "idle"
  /\ pending = {}
  /\ issued = {}
  /\ harvested = {}
  /\ mk_status = "none"

AuxIdle == ConnIdle /\ ImgIdle

Init == PipeIdle /\ MetsIdle /\ AuxIdle

Next ==
  \E w \in ActiveWorkers :
    \/ BatchStart(w)
    \/ MetsEnsureDir(w)
    \/ MetsCheck(w)
    \/ MetsOpen(w)
    \/ MetsOpenFails(w)
    \/ MetsWriteChunk(w)
    \/ MetsTransportFails(w)
    \/ MetsClose(w)
    \/ MetsStat(w)
    \/ AltosOpenMets(w)
    \/ AltosEnsureDir(w)
    \/ AltosParse(w)
    \/ AltosLoopEnd(w)
    \/ AltosCheck(w)
    \/ AltosOpen(w)
    \/ AltosOpenFails(w)
    \/ AltosWriteChunk(w)
    \/ AltosTransportFails(w)
    \/ AltosClose(w)

Spec == Init /\ [][Next]_vars

(* two invocations of DownloadBindingBatchOperator.execute on the same batch,
   from independent contexts, each with its own SSH connection and SFTP
   client, over the same storage; no transport failure is injected *)

\* the batch both invocations are given
ConcBatch == <<Batch[NumBindings]>>

ConcStart(w) ==
  /\ pc[w] = "idle"
  /\ Start(w, "batch", ConcBatch)

NextConc ==
  \E w \in Workers :
    \/ ConcStart(w)
    \/ MetsEnsureDir(w)
    \/ MetsCheck(w)
    \/ MetsOpen(w)
    \/ MetsWriteChunk(w)
    \/ MetsClose(w)
    \/ MetsStat(w)
    \/ AltosOpenMets(w)
    \/ AltosEnsureDir(w)
    \/ AltosParse(w)
    \/ AltosLoopEnd(w)
    \/ AltosCheck(w)
    \/ AltosOpen(w)
    \/ AltosWriteChunk(w)
    \/ AltosClose(w)

SpecConc == Init /\ [][NextConc]_vars

(* the two orchestrations that chain the stages: DownloadBindingBatchOperator
   and the task download_binding_batch of the DAG *)

NextDag ==
  \/ Next
  \/ \E w \in ActiveWorkers :
       \/ DagStart(w)
       \/ MetsEnsureDirFails(w)

SpecDag == Init /\ [][NextDag]_vars

(* the per-file operators of the repository over manifests that are already
   on storage: SaveAltosSFTPOperator run by the batch operator, and the two
   operators of airflow/plugins that peek at the first file *)

\* storage on which every binding has a complete manifest, one that lists
\* files of the target type or one that lists none
ManifestsStored ==
  {[p \in Paths |-> IF p.dir = "mets" /\ p.name = 0
                    THEN [present |-> TRUE, data |-> k[p.root]]
                    ELSE Absent] :
     k \in {f \in [1..NumBindings -> {MetsSrc(1), NoAltoSrc(1)}] :
              \A b \in 1..NumBindings : f[b] \in {MetsSrc(b), NoAltoSrc(b)}}}

InitPeek ==
  /\ fs \in ManifestsStored
  /\ dirs = {}
  /\ pc = [w \in Workers |-> "idle"]
  /\ err = [w \in Workers |-> "none"]
  /\ runs = [w \in Workers |-> 0]
  /\ bidx = [w \in Workers |-> 1]
  /\ sidx = [w \in Workers |-> 1]
  /\ fidx = [w \in Workers |-> 1]
  /\ alto_files = [w \in Workers |-> <<>>]
  /\ stream = [w \in Workers |-> <<>>]
  /\ gh = [w \in Workers |-> NewHistory]
  /\ metsAborted = [b \in 1..NumBindings |-> FALSE]
  /\ batch = [w \in Workers |-> Batch]
  /\ orch = [w \in Workers |-> "batch"]
  /\ pos = [w \in Workers |-> 0]
  /\ MetsIdle
  /\ AuxIdle

NextPeek ==
  \E w \in ActiveWorkers :
    \/ \E o \in {"for_mets", "for_set"} : PeekStart(w, o)
    \/ PeekOpenMets(w)
    \/ PeekFirst(w)
    \/ PeekMakeDirs(w)
    \/ PeekOpen(w)
    \/ PeekWriteChunk(w)
    \/ PeekClose(w)
    \/ BatchStart(w)
    \/ MetsEnsureDir(w)
    \/ MetsCheck(w)
    \/ AltosOpenMets(w)
    \/ AltosEnsureDir(w)
    \/ AltosParse(w)
    \/ AltosLoopEnd(w)
    \/ AltosCheck(w)
    \/ AltosOpen(w)
    \/ AltosWriteChunk(w)
    \/ AltosClose(w)

SpecPeek == InitPeek /\ [][NextPeek]_vars

(* one METS instance *)

\* for _ in mets.files()
CallFiles ==
  /\ Len(mets_calls) < MaxCalls
  /\ LET r == files(files_cache, mets_doc) IN
     /\ files_cache' = r.cache
     /\ mets_parses' = mets_parses + (IF r.parsed THEN 1 ELSE 0)
     /\ mets_out' = r.out
     /\ mets_raised' = r.raised
  /\ mets_calls' = Append(mets_calls, "files")
  /\ UNCHANGED <<mets_doc, mets_downloaded>>
  /\ UNCHANGED pipeVars
  /\ UNCHANGED auxVars

\* for _ in mets.files_of_type(filetype)
CallFilesOfType(filetype) ==
  /\ Len(mets_calls) < MaxCalls
  /\ LET r == files_of_type(files_cache, mets_doc, filetype) IN
     /\ files_cache' = r.cache
     /\ mets_parses' = mets_parses + (IF r.parsed THEN 1 ELSE 0)
     /\ mets_out' = r.out
     /\ mets_raised' = r.raised
  /\ mets_calls' = Append(mets_calls, filetype)
  /\ UNCHANGED <<mets_doc, mets_downloaded>>
  /\ UNCHANGED pipeVars
  /\ UNCHANGED auxVars

\* METS(binding_dc_identifier, mets_path) over any manifest of the bound
InitMETS ==
  /\ PipeIdle
  /\ AuxIdle
  /\ mets_doc \in DocsUpTo(MaxElems)
  /\ files_cache = NoFiles
  /\ mets_parses = 0
  /\ mets_out = <<>>
  /\ mets_raised = FALSE
  /\ mets_calls = <<>>
  /\ mets_downloaded = <<>>

NextMETS ==
  \/ CallFiles
  \/ \E t \in FileTypes : CallFilesOfType(t)

SpecMETS == InitMETS /\ [][NextMETS]_vars

\* mets.download_files_of_type(filetype, ...)
CallDownloadFilesOfType(filetype) ==
  /\ Len(mets_calls) < MaxCalls
  /\ LET r == download_files_of_type(files_cache, mets_doc, filetype) IN
     /\ files_cache' = r.cache
     /\ mets_parses' = mets_parses + (IF r.parsed THEN 1 ELSE 0)
     /\ mets_raised' = r.raised
     /\ mets_downloaded' = r.downloads
  /\ mets_out' = <<>>
  /\ mets_calls' = Append(mets_calls, "download_" \o filetype)
  /\ UNCHANGED mets_doc
  /\ UNCHANGED pipeVars
  /\ UNCHANGED auxVars

\* mets.download_alto_files(...)
CallDownloadAltoFiles ==
  /\ Len(mets_calls) < MaxCalls
  /\ LET r == download_alto_files(files_cache, mets_doc) IN
     /\ files_cache' = r.cache
     /\ mets_parses' = mets_parses + (IF r.parsed THEN 1 ELSE 0)
     /\ mets_raised' = r.raised
     /\ mets_downloaded' = r.downloads
  /\ mets_out' = <<>>
  /\ mets_calls' = Append(mets_calls, "download_alto_files")
  /\ UNCHANGED mets_doc
  /\ UNCHANGED pipeVars
  /\ UNCHANGED auxVars

NextDownload ==
  \/ \E t \in FileTypes : CallDownloadFilesOfType(t)
  \/ CallDownloadAltoFiles

SpecDownload == InitMETS /\ [][NextDownload]_vars

(* ---------------------- CreateConnectionOperator ----------------------- *)

ConnIds == {"nlf_http_conn", "puhti_conn"}
ConnHosts == {"host_a", "host_b"}

\* session.query(Connection).all() mapped to conn_id
conn_ids(store) == {store[i].conn_id : i \in DOMAIN store}

\* CreateConnectionOperator.execute on the store
create_connection_always(store, conn_id, host) ==
  Append(store, [conn_id |-> conn_id, host |-> host])
create_connection(store, conn_id, host) ==
  IF conn_id \notin conn_ids(store)
  THEN Append(store, [conn_id |-> conn_id, host |-> host])   \* add, commit
  ELSE store

\* one execution of an operator built with conn_id and host
CreateConnection(conn_id, host) ==
  /\ Len(conn_log) < MaxConnExecs
  /\ conns' = create_connection(conns, conn_id, host)
  /\ conn_log' = Append(conn_log, [conn_id |-> conn_id, host |-> host, before |-> conns])
  /\ UNCHANGED pipeVars
  /\ UNCHANGED metsVars
  /\ UNCHANGED imgVars

\* the stores Airflow can hold: conn_id is unique
ConnStores ==
  {st \in UNION {[1..n -> [conn_id : ConnIds, host : ConnHosts]] :
                   n \in 0..Cardinality(ConnIds)} :
     \A i, j \in DOMAIN st : i # j => st[i].conn_id # st[j].conn_id}

InitConn ==
  /\ PipeIdle
  /\ MetsIdle
  /\ conns \in ConnStores
  /\ conn_log = <<>>
  /\ ImgIdle

NextConn == \E conn_id \in ConnIds, host \in ConnHosts : CreateConnection(conn_id, host)

SpecConn == InitConn /\ [][NextConn]_vars

(* ------------- PrepareDownloadLocationOperator, CreateImageOperator ------------- *)

\* ssh_client.exec_command(cmd): the command is started on the remote host and
\* the call returns; nothing waits for it unless recv_exit_status is called.
exec_command(cmd) ==
  /\ pending' = pending \cup {cmd}
  /\ issued' = issued \cup {cmd}

\* what a directory or an image holds
Held(d) == IF d.present THEN d.data ELSE {}

ImgUnchangedOthers ==
  /\ UNCHANGED pipeVars
  /\ UNCHANGED metsVars
  /\ UNCHANGED connVars

\* PrepareDownloadLocationOperator.execute: extract the image when it is
\* listed under base_path, create the temporary image directory otherwise.
PrepareDownloadLocation ==
  /\ ipc = "idle"
  /\ IF image.present
     THEN /\ exec_command("unsquashfs")
          /\ tmp' = tmp
     ELSE /\ tmp' = [present |-> TRUE, data |-> Held(tmp)]
          /\ UNCHANGED <<pending, issued>>
  /\ ipc' = "download"
  /\ UNCHANGED <<image, harvested, mk_status>>
  /\ ImgUnchangedOthers

\* the remote unsquashfs -d tmp image.sqfs runs; its exit status is never read
RunUnsquashfs ==
  /\ "unsquashfs" \in pending
  /\ pending' = pending \ {"unsquashfs"}
  /\ \/ /\ image.present
        /\ tmp' = [present |-> TRUE, data |-> Held(tmp) \cup image.data]
     \/ tmp' = tmp
  /\ UNCHANGED <<image, ipc, issued, harvested, mk_status>>
  /\ ImgUnchangedOthers

\* the download tasks store one more binding under the temporary image directory
ImageDownload(b) ==
  /\ ipc = "download"
  /\ b \notin Held(tmp)
  /\ tmp' = [present |-> TRUE, data |-> Held(tmp) \cup {b}]
  /\ harvested' = harvested \cup {b}
  /\ UNCHANGED <<image, ipc, pending, issued, mk_status>>
  /\ ImgUnchangedOthers

\* the download tasks are over and CreateImageOperator is scheduled
ImageDownloadEnd ==
  /\ ipc = "download"
  /\ ipc' = "create"
  /\ UNCHANGED <<image, tmp, pending, issued, harvested, mk_status>>
  /\ ImgUnchangedOthers

\* CreateImageOperator.execute, "Deleting old image": rm is started
ImageRmOld ==
  /\ ipc = "create"
  /\ exec_command("rm_image")
  /\ ipc' = "mksquashfs"
  /\ UNCHANGED <<image, tmp, harvested, mk_status>>
  /\ ImgUnchangedOthers

\* the remote rm image.sqfs runs
RunRmImage ==
  /\ "rm_image" \in pending
  /\ pending' = pending \ {"rm_image"}
  /\ image' = NoDir
  /\ UNCHANGED <<tmp, ipc, issued, harvested, mk_status>>
  /\ ImgUnchangedOthers

\* CreateImageOperator.execute: mksquashfs tmp image.sqfs is started and its
\* exit status is waited for; mksquashfs appends to an image that exists.
ImageMksquashfs ==
  /\ ipc = "mksquashfs"
  /\ issued' = issued \cup {"mksquashfs"}
  /\ \/ /\ tmp.present
        /\ image' = [present |-> TRUE, data |-> Held(image) \cup tmp.data]
        /\ mk_status' = "ok"
        /\ ipc' = "rm_tmp"
     \/ /\ image' = image
        /\ mk_status' = "fail"
        /\ ipc' = "raised"            \* raise Exception("Creation of image ... failed")
  /\ UNCHANGED <<tmp, pending, harvested>>
  /\ ImgUnchangedOthers

\* CreateImageOperator.execute, after exit status 0: rm -r tmp is started
ImageRmTmp ==
  /\ ipc = "rm_tmp"
  /\ exec_command("rm_tmp")
  /\ ipc' = "done"
  /\ UNCHANGED <<image, tmp, harvested, mk_status>>
  /\ ImgUnchangedOthers

\* the remote rm -r tmp runs
RunRmTmp ==
  /\ "rm_tmp" \in pending
  /\ pending' = pending \ {"rm_tmp"}
  /\ tmp' = NoDir
  /\ UNCHANGED <<image, ipc, issued, harvested, mk_status>>
  /\ ImgUnchangedOthers

\* before the run: no image yet, or the image of an earlier harvest
InitImage ==
  /\ PipeIdle
  /\ MetsIdle
  /\ ConnIdle
  /\ \E old \in SUBSET (1..NumBindings) :
       /\ image \in {NoDir, [present |-> TRUE, data |-> old]}
       /\ harvested = Held(image)
  /\ tmp = NoDir
  /\ ipc = "idle"
  /\ pending = {}
  /\ issued = {}
  /\ mk_status = "none"

NextImage ==
  \/ PrepareDownloadLocation
  \/ RunUnsquashfs
  \/ \E b \in 1..NumBindings : ImageDownload(b)
  \/ ImageDownloadEnd
  \/ ImageRmOld
  \/ RunRmImage
  \/ ImageMksquashfs
  \/ ImageRmTmp
  \/ RunRmTmp

SpecImage == InitImage /\ [][NextImage]_vars

(* ------------------------------- claims ------------------------------- *)

\* the content files of the target type that binding b's manifest lists
AltoPathsOf(b) ==
  {file_download_location(MetsDoc(b)[i], b, "alto") :
     i \in {j \in DOMAIN MetsDoc(b) : MetsDoc(b)[j].use = "alto"}}

\* C1: once a call has been made on a manifest in which some file element
\* declares two or more locations, the last files() call raised and yielded
\* no record.
C1_AllOrNothing ==
  (/\ \E i \in DOMAIN mets_doc : mets_doc[i].nloc >= 2
   /\ mets_calls # <<>>
   /\ mets_calls[Len(mets_calls)] = "files")
  => (mets_raised /\ mets_out = <<>>)


(* claims about one METS instance *)

AllOneLocation == \A i \in DOMAIN mets_doc : mets_doc[i].nloc = 1
LastCall == mets_calls[Len(mets_calls)]

\* the k-th smallest element of a set of positions
KthPos(S, k) == CHOOSE i \in S : Cardinality({j \in S : j < i}) = k - 1

\* the records of type t among those files() yields on the instance as it
\* is now, in listing order
ListedOfType(t) ==
  LET listing == files(files_cache, mets_doc).out
      at == {i \in DOMAIN listing : listing[i].type = t}
  IN [k \in 1..Cardinality(at) |-> listing[KthPos(at, k)]]

\* C11: the backing document of a METS instance is opened and parsed at most
\* once, whatever calls are made and whatever the manifest lists.
C11_ParsedAtMostOnce == mets_parses <= 1

\* C12: on a manifest whose file elements each declare one location, every
\* files() call yields one record per element, in document order, without
\* raising.
C12_OneRecordPerElement ==
  (AllOneLocation /\ mets_calls # <<>> /\ LastCall = "files") =>
     /\ ~mets_raised
     /\ Len(mets_out) = Len(mets_doc)
     /\ \A i \in 1..Len(mets_out) : mets_out[i].name = mets_doc[i].name

\* C12 witness: files() was called twice on a manifest of two elements and
\* yielded two records.
C12_Witness ==
  /\ AllOneLocation /\ Len(mets_doc) = 2 /\ Len(mets_out) = 2
  /\ mets_calls = <<"files", "files">>

\* C13: a files_of_type(T) call that does not raise yields exactly the records
\* of type T of the listing files() yields, in the same order, and the
\* document has been parsed no more than once.
C13_FilterOfCachedListing ==
  (mets_calls # <<>> /\ LastCall \in FileTypes /\ ~mets_raised) =>
     /\ mets_out = ListedOfType(LastCall)
     /\ mets_parses <= 1

\* C18: a record carries a checksum and an uppercased algorithm name exactly
\* when its element declares exactly one checksum, and the number of declared
\* checksums never makes a call raise.
C18_ChecksumBestEffort ==
  /\ \A i \in 1..Len(files_cache.files) :
       LET f == files_cache.files[i]
           e == mets_doc[f.name]
       IN /\ f.has_checksum <=> Len(e.cks) = 1
          /\ Len(e.cks) = 1 => /\ f.algorithm \in {"MD5", "SHA1"}
                               /\ e.cks[1] \in {"md5", "MD5"} => f.algorithm = "MD5"
          /\ Len(e.cks) # 1 => f.algorithm = "unset"
  /\ (AllOneLocation /\ mets_calls # <<>>) => ~mets_raised

\* C18 witness: a parsed listing holds a record with the checksum of an
\* element declaring "md5" and a record of an element declaring two checksums.
C18_Witness ==
  /\ Len(files_cache.files) = 2
  /\ mets_doc[1].cks = <<"md5">> /\ files_cache.files[1].algorithm = "MD5"
  /\ Len(mets_doc[2].cks) = 2 /\ ~files_cache.files[2].has_checksum

\* C19: every element with one location is classified into one of the file
\* types, an element whose use is not in the lookup table into the unknown
\* type, and the listing is complete: no classification aborts the parse.
C19_ClassificationTotal ==
  (AllOneLocation /\ mets_calls # <<>>) =>
     /\ Len(files_cache.files) = Len(mets_doc)
     /\ \A i \in 1..Len(files_cache.files) :
          /\ files_cache.files[i].type \in FileTypes
          /\ mets_doc[i].use = "image" => files_cache.files[i].type = "UnknownTypeFile"
          /\ mets_doc[i].use = "alto" => files_cache.files[i].type = "ALTOFile"

\* C19 witness: a listing was parsed from a manifest whose first element has
\* a use outside the lookup table and whose second is an ALTO file.
C19_Witness ==
  /\ Len(files_cache.files) = 2
  /\ mets_doc[1].use = "image" /\ mets_doc[2].use = "alto"
  /\ files_cache.files[1].type = "UnknownTypeFile"

\* C17: a download_files_of_type(T) or download_alto_files call that does not
\* raise invokes download once on each record of the requested type that
\* files_of_type yields, in listing order, and on no other record.
C17_DownloadEachOnce ==
  (mets_calls # <<>> /\ ~mets_raised) =>
     LET t == IF LastCall = "download_UnknownTypeFile" THEN "UnknownTypeFile"
              ELSE "ALTOFile"
     IN mets_downloaded = ListedOfType(t)

\* C17 witness: download_alto_files invoked download on one record of a
\* manifest that also lists a file of another type.
C17_Witness ==
  /\ mets_calls # <<>> /\ LastCall = "download_alto_files"
  /\ Len(mets_doc) = 2 /\ Len(mets_downloaded) = 1
  /\ mets_doc[1].use = "image"

(* claims about batch processing *)

NonEmpty(c) == c.present /\ Len(c.data) > 0
SeenPaths(w) == {s.path : s \in gh[w].seen}
InAltos(w) == pc[w] \in {"altos_open_mets", "altos_ensure", "altos_parse",
                         "altos_check", "altos_open", "altos_stream"}
Touched(w) == gh[w].openTried \cup gh[w].fetched

\* C2: a RequestException on a content file never leaves
\* SaveAltosSFTPOperator.execute; once execute has returned for a binding, every
\* file of the target type was attempted, and every file whose download
\* returned holds the complete source content.
C2_FailureIsolation ==
  \A w \in ActiveWorkers :
    /\ ~(pc[w] = "raised" /\ err[w] = "RequestException"
         /\ Stages[sidx[w]] = "SaveAltos")
    /\ \A b \in gh[w].altosDone : AltoPathsOf(b) \subseteq SeenPaths(w)
    /\ \A p \in gh[w].fetchOK : fs[p] = [present |-> TRUE, data |-> AltoSrc(p)]

\* C2 witness: execute returned for a binding in which the fetch of one file
\* failed and the download of a later file succeeded.
C2_Witness ==
  \E w \in ActiveWorkers : \E p \in gh[w].reqFailed : \E q \in gh[w].fetchOK :
    /\ p.root = q.root /\ p.name < q.name
    /\ p.root \in gh[w].altosDone

\* C3: a manifest found non-empty by SaveMetsSFTPOperator.execute is neither
\* opened for writing nor fetched, keeps its content, and execute returns
\* without error.
C3_ManifestIdempotence ==
  \A w \in ActiveWorkers : \A s \in gh[w].seen :
    (s.path.dir = "mets" /\ NonEmpty(s.at)) =>
       /\ s.path \notin Touched(w)
       /\ fs[s.path] = s.at
       /\ s.path.root \in gh[w].metsDone

\* C3 witness: a second execution finds the complete manifest of the first.
C3_Witness ==
  \E w \in ActiveWorkers : \E s \in gh[w].seen :
    /\ s.path.dir = "mets" /\ s.at.data = MetsSrc(s.path.root)
    /\ runs[w] >= 2 /\ pc[w] = "done"

\* C4: when the channel delivers no byte for the manifest, execute raises
\* METSFileEmptyError and leaves a zero-length file, which file_exists
\* rejects; a zero-length manifest found by a later execution is opened again.
C4_EmptyManifest ==
  \A w \in ActiveWorkers :
    /\ \A p \in gh[w].zero :
         \/ pc[w] \in {"mets_stream", "mets_stat"}
         \/ /\ pc[w] = "raised" /\ err[w] = "METSFileEmptyError"
            /\ fs[p] = Truncated
    /\ \A s \in gh[w].seen :
         (s.path.dir = "mets" /\ s.at = Truncated) =>
            \/ pc[w] = "mets_open"
            \/ s.path \in gh[w].openTried

\* C4 witness: the empty manifest left by one execution is fetched again by
\* the next, which receives no byte either and raises.
C4_Witness ==
  \E w \in ActiveWorkers : \E p \in gh[w].zero :
    /\ pc[w] = "raised" /\ err[w] = "METSFileEmptyError"
    /\ [path |-> p, at |-> Truncated] \in gh[w].seen

\* C5: a manifest whose last download was cut by a transport error is not
\* treated as complete: no later manifest stage returns without fetching it
\* again.
C5_PartialManifestRefetched ==
  \A w \in ActiveWorkers : \A b \in gh[w].metsDone : ~metsAborted[b]

\* C6: an execution that meets no failure and ends normally leaves every file
\* of the target type complete at its destination, whatever earlier
\* executions left behind.
C6_Resumable ==
  \A w \in ActiveWorkers :
    (pc[w] = "done" /\ ~gh[w].faulted) =>
       \A i \in 1..Len(Batch) : \A p \in AltoPathsOf(Batch[i]) :
          fs[p] = [present |-> TRUE, data |-> AltoSrc(p)]

\* C7: a content file found non-empty is neither opened for writing nor
\* fetched and keeps its content; one found absent or zero-length is opened
\* for writing.
C7_PerFileIdempotence ==
  \A w \in ActiveWorkers : \A s \in gh[w].seen :
    s.path.dir = "alto" =>
       IF NonEmpty(s.at)
       THEN s.path \notin Touched(w) /\ fs[s.path] = s.at
       ELSE \/ pc[w] = "altos_open" /\ AltoPath(w) = s.path
            \/ s.path \in gh[w].openTried

\* C7 witness: one execution skipped a non-empty file and transferred a
\* zero-length one completely.
C7_Witness ==
  \E w \in ActiveWorkers : \E s, t \in gh[w].seen :
    /\ s.path.dir = "alto" /\ NonEmpty(s.at)
    /\ t.path.dir = "alto" /\ t.at = Truncated /\ t.path \in gh[w].fetchOK
    /\ pc[w] = "done"

\* C8: an OSError while opening or writing one content file does not leave
\* SaveAltosSFTPOperator.execute.
C8_StorageFailureIsolated ==
  \A w \in ActiveWorkers : gh[w].osFailed # {} => pc[w] # "raised"

\* C9: a transport failure of the manifest fetch ends the execution with that
\* error, and no content file of the binding is checked, opened or fetched.
C9_ManifestTransportFatal ==
  \A w \in ActiveWorkers : \A b \in gh[w].metsFailed :
    /\ pc[w] = "raised"
    /\ err[w] \in {"RequestException", "OSError"}
    /\ \A p \in Touched(w) \cup SeenPaths(w) : ~(p.root = b /\ p.dir = "alto")

\* C9 witness: the manifest fetch of the second binding failed after bytes had
\* been written, the first binding having been replicated.
C9_Witness ==
  \E w \in ActiveWorkers :
    /\ Batch[2] \in gh[w].metsFailed
    /\ Batch[1] \in gh[w].altosDone
    /\ Len(fs[mets_download_location(Batch[2], "mets")].data) > 0

\* C10: the per-file stage of a binding runs, and a content file of a binding
\* is opened or fetched, only after the manifest stage of that binding has
\* returned in the same execution.
C10_ManifestBeforeFiles ==
  \A w \in ActiveWorkers :
    /\ InAltos(w) => Binding(w) \in gh[w].metsDone
    /\ \A p \in Touched(w) : p.dir = "alto" => p.root \in gh[w].metsDone

\* C10 witness: a content file of the second binding is being written.
C10_Witness ==
  \E w \in ActiveWorkers :
    /\ pc[w] = "altos_stream" /\ Binding(w) = Batch[2]
    /\ Len(fs[AltoPath(w)].data) > 0

\* C20: whenever SaveAltosSFTPOperator.execute is entered for a binding, a
\* non-empty manifest file is at that binding's manifest path, and every
\* binding whose SaveMetsSFTPOperator.execute returned normally in this
\* execution has a non-empty manifest file.
C20_ManifestPresentAtAltos ==
  \A w \in ActiveWorkers :
    /\ pc[w] = "altos_open_mets" => NonEmpty(fs[MetsPath(w)])
    /\ \A b \in gh[w].metsDone : NonEmpty(fs[mets_download_location(b, "mets")])

\* C20 witness: the per-file stage of the second binding is entered right
\* after its manifest was fetched in this execution.
C20_Witness ==
  \E w \in ActiveWorkers :
    /\ pc[w] = "altos_open_mets" /\ Binding(w) = Batch[2]
    /\ MetsPath(w) \in gh[w].fetched

\* the complete content of the source of a destination path
SourceOf(p) == IF p.dir = "mets" THEN MetsSrc(p.root) ELSE AltoSrc(p)

\* C14: for two concurrent invocations, each with its own transport handle:
\* once both have finished, every non-empty destination file holds the
\* complete source content, and no invocation fails to parse a manifest
\* because the other has written it only in part.
C14_ConcurrentSafe ==
  /\ (\A w \in Workers : pc[w] \in {"done", "raised"}) =>
        \A p \in Paths : NonEmpty(fs[p]) => fs[p].data = SourceOf(p)
  /\ \A w \in Workers : ~(pc[w] = "raised" /\ err[w] = "XMLSyntaxError")

(* claims about the orchestrations *)

BindingsSoFar(w) == {batch[w][i] : i \in 1..bidx[w]}

\* C21: an exception raised while a binding is processed leaves
\* DownloadBindingBatchOperator.execute; nothing of a later binding of the
\* batch has then been opened or fetched in this execution, and a step only
\* ever changes files of the binding being processed by an execution that has
\* not raised, so what was written for earlier bindings stays as it is.
C21_BatchAbort ==
  /\ [](\A w \in ActiveWorkers :
          /\ err[w] # "none" => pc[w] = "raised"
          /\ pc[w] = "raised" => \A p \in Touched(w) : p.root \in BindingsSoFar(w))
  /\ [][\A p \in Paths :
          fs'[p] # fs[p] =>
            \E w \in ActiveWorkers : pc[w] # "raised" /\ p.root = Binding(w)]_vars

\* C21 witness: the manifest stage of the first binding of a longer batch
\* raised and ended the execution.
C21_Witness ==
  \E w \in ActiveWorkers :
    /\ pc[w] = "raised" /\ sidx[w] = 1 /\ bidx[w] = 1 /\ Len(batch[w]) > 1
    /\ err[w] \in {"RequestException", "OSError", "METSFileEmptyError"}
    /\ Binding(w) \in gh[w].metsFailed \/ err[w] = "METSFileEmptyError"

\* C22: file_exists(path) is TRUE exactly when the path is there with a size
\* above zero, FALSE for a missing path and for a zero-length file; the check
\* never raises and never changes storage.
C22_FileExists ==
  /\ [](\A p \in Paths :
          /\ file_exists(p) <=> (fs[p].present /\ Len(fs[p].data) > 0)
          /\ fs[p] \in {Absent, Truncated} => ~file_exists(p))
  /\ [][\A w \in ActiveWorkers :
          pc[w] \in {"mets_check", "altos_check"} =>
             /\ fs' = fs /\ dirs' = dirs
             /\ pc'[w] # "raised"]_vars

\* C22 witness: one execution has checked a missing path, a zero-length file
\* and a non-empty file.
C22_Witness ==
  \E w \in ActiveWorkers :
    /\ \E s \in gh[w].seen : s.at = Absent
    /\ \E s \in gh[w].seen : s.at = Truncated
    /\ \E s \in gh[w].seen : NonEmpty(s.at)

C24_EmptyListing ==
  \A b \in 1..NumBindings :
    fs[mets_download_location(b, "mets")].data = NoAltoSrc(b) =>
       /\ \A p \in Paths : (p.root = b /\ p.dir = "alto") => ~fs[p].present
       /\ \A w \in ActiveWorkers : ~(pc[w] = "raised" /\ Binding(w) = b)

(* claims about the connection store *)

\* the rows of the store with a given conn_id
RowsWithId(store, id) == {i \in DOMAIN store : store[i].conn_id = id}

\* the store an execution of the log left behind
StoreAfter(i) == IF i < Len(conn_log) THEN conn_log[i + 1].before ELSE conns

\* C25: after every execution the store holds exactly one connection with the
\* conn_id of that execution, and it still does after the later executions;
\* every row that was there before is still there, unchanged and in place,
\* and the only row an execution can add carries its conn_id.
C25_ConnectionIdempotent ==
  \A i \in DOMAIN conn_log :
    LET e == conn_log[i]
        after == StoreAfter(i)
    IN /\ Cardinality(RowsWithId(after, e.conn_id)) = 1
       /\ Cardinality(RowsWithId(conns, e.conn_id)) = 1
       /\ Len(e.before) <= Len(after) /\ Len(after) <= Len(e.before) + 1
       /\ \A j \in DOMAIN e.before : after[j] = e.before[j]
       /\ \A j \in DOMAIN after \ DOMAIN e.before : after[j].conn_id = e.conn_id

\* C25 witness: next to a connection with another id, two executions with the
\* same conn_id and different hosts have run; the first added the connection
\* and the second left the store as it was.
C25_Witness ==
  /\ Len(conn_log) = 2
  /\ conn_log[1].conn_id = conn_log[2].conn_id
  /\ conn_log[1].host # conn_log[2].host
  /\ Len(conn_log[1].before) = 1
  /\ Len(conn_log[2].before) = 2
  /\ conns = conn_log[2].before

(* claims about the disk image *)

\* the removal of the temporary directory is started only after mksquashfs
\* has exited with status 0
RmTmpAfterExitZero == "rm_tmp" \in issued => mk_status = "ok"

\* a failed mksquashfs makes execute raise, and the removal of the temporary
\* directory is never started
FailureKeepsTmp == mk_status = "fail" => (ipc = "raised" /\ "rm_tmp" \notin issued)

\* every binding harvested so far is in the image or in the temporary directory
HarvestHeld == harvested \subseteq (Held(image) \cup Held(tmp))

\* C26: the temporary image directory is removed only after image creation
\* exited with status 0; when image creation fails execute raises and the
\* temporary directory is left in place; and in every reachable state the
\* image (the previous or the new one) or the temporary directory still
\* holds the harvested data.
C26_ImageKeepsHarvest ==
  /\ RmTmpAfterExitZero
  /\ FailureKeepsTmp
  /\ HarvestHeld

====
